---- MODULE Spec2Model ----
(***************************************************************************)
(* A model of the Huffman compressor of src/src/main.rs: the BitSet bit    *)
(* container, the Pair/Node ordering, build_huffman_tree on a BinaryHeap,  *)
(* the code and tree encoders, CompressedFile and the two entry points     *)
(* compress and decompress.                                                *)
(*                                                                         *)
(* Representation.  A char is its code point.  Option<T> is a sequence of  *)
(* length 0 (None) or 1 (Some).  Pair(u64, char) is the tuple <<k, v>>, so *)
(* p[1] is the source's p.0 and p[2] its p.1.  The BinaryHeap is the set   *)
(* of the nodes it holds: nodes of one heap are pairwise different, since  *)
(* their leaves are different characters.  Counts and sizes stay far below *)
(* 2^31 within the bounds, so u32/u64 arithmetic never wraps here.         *)
(***************************************************************************)
EXTENDS Integers, Sequences, FiniteSets, TLC

VARIABLES
    src_file,         \* the file at `from`: None (unreadable) or Some(text)
    pc,               \* position of the run
    data,             \* compress: data
    char_freq_table,  \* compress: char_freq_table
    heap,             \* build_huffman_tree: heap
    root,             \* the Option returned by build_huffman_tree
    huffman_codes,    \* compress: huffman_codes
    encoded_tree,     \* compress: encoded_tree
    encoded_data,     \* compress: encoded_data
    compressed_file,  \* compress: compressed_file (Option)
    dst_file,         \* the file at `to` of compress: None or Some(bytes)
    restored,         \* the file at `to` of decompress: None or Some(text)
    panic             \* the panic message that ended the run, "" when none

vars == <<src_file, pc, data, char_freq_table, heap, root, huffman_codes,
          encoded_tree, encoded_data, compressed_file, dst_file, restored,
          panic>>

\* Longest input text of the model.
MaxLen == 4

\* The input characters: 'a', 'b', 'c' and U+0161 (353 = 256 + 97).
Alphabet == {97, 98, 99, 353}

Texts == UNION {[1..n -> Alphabet] : n \in 0..MaxLen}

None == <<>>
Some(x) == <<x>>

Min(a, b) == IF a <= b THEN a ELSE b

(***************************************************************************)
(* BitSet                                                                  *)
(***************************************************************************)
BitSet_new == [bytes |-> <<0>>, pos |-> 0]

BitSet_from(bytes) == [bytes |-> bytes, pos |-> 8 * Len(bytes)]

BitSet_len(self) == Len(self.bytes)

\* byte | (1 << r) on a u8, r < 8
OrBit8(byte, r) == IF (byte \div 2^r) % 2 = 1 THEN byte ELSE byte + 2^r

\* byte & (1 << r) on a u8, r < 8
AndBit8(byte, r) == ((byte \div 2^r) % 2) * 2^r

push_bit(self, bit) ==
    LET i == self.pos \div 8
        r == self.pos % 8
        grown == IF i = Len(self.bytes) THEN Append(self.bytes, 0)
                                         ELSE self.bytes
        set == IF bit = 1 THEN [grown EXCEPT ![i + 1] = OrBit8(@, r)]
                          ELSE grown
    IN  [bytes |-> set, pos |-> self.pos + 1]

\* x | (1 << i) on a u32, as the two 16-bit halves <<high, low>>
OrMask32(x, i) ==
    LET hi == x \div 65536
        lo == x % 65536
        or16(h, r) == IF (h \div 2^r) % 2 = 1 THEN h ELSE h + 2^r
    IN  IF i < 16 THEN <<hi, or16(lo, i)>> ELSE <<or16(hi, i - 16), lo>>

\* (x | mask).min(1) as u8
push_u32_bit(x, i) ==
    LET v == OrMask32(x, i)
    IN  IF v[1] = 0 THEN Min(v[2], 1) ELSE 1

\* The loops over a BitSet test self.pos first: TLC passes arguments
\* unevaluated, and reading the accumulator at every step keeps the chain of
\* pending push_bit calls one step long.
RECURSIVE push_u32_from(_, _, _)
push_u32_from(self, x, i) ==
    IF self.pos >= 0 /\ i < 32
    THEN push_u32_from(push_bit(self, push_u32_bit(x, i)), x, i + 1)
    ELSE self

push_u32(self, x) == push_u32_from(self, x, 0)

raw_bytes(self) == self.bytes

get_bit(self, index) ==
    LET i == index \div 8
        r == index % 8
    IN  Min(AndBit8(self.bytes[i + 1], r), 1)

RECURSIVE push_back_from(_, _, _)
push_back_from(self, rhs, i) ==
    IF self.pos >= 0 /\ i < rhs.pos
    THEN push_back_from(push_bit(self, get_bit(rhs, i)), rhs, i + 1)
    ELSE self

push_back(self, rhs) == push_back_from(self, rhs, 0)

\* The bits of a BitSet in buffer order (what to_string prints).
to_string(self) == [i \in 1..self.pos |-> get_bit(self, i - 1)]

(***************************************************************************)
(* Pair and its inverted ordering                                          *)
(***************************************************************************)
Pair_new(k, v) == <<k, v>>

Pair_add(self, other) == <<self[1] + other[1], 0>>

\* Pair_le without the inversion: the natural order of the weights.
Pair_le_natural(self, other) == self[1] <= other[1]

Pair_le(self, other) == self[1] >= other[1]

(***************************************************************************)
(* Node                                                                    *)
(***************************************************************************)
Node_new(v) == [left |-> None, right |-> None, data |-> v]

combine(self, other) ==
    [left |-> Some(self), right |-> Some(other),
     data |-> Pair_add(self.data, other.data)]

Node_le(self, other) == Pair_le(self.data, other.data)

\* visit with the left branch taking the parent's code as it is.
RECURSIVE visit_left_unmarked(_, _)
visit_left_unmarked(self, code) ==
    IF self.right = None /\ self.left = None
    THEN << <<self.data, code>> >>
    ELSE (IF self.left # None
          THEN visit_left_unmarked(self.left[1], code) ELSE <<>>)
         \o
         (IF self.right # None
          THEN visit_left_unmarked(self.right[1], push_bit(code, 1)) ELSE <<>>)

\* The sequence of visitor_fn calls of visit, as <<data, code>> pairs.
RECURSIVE visit(_, _)
visit(self, code) ==
    IF self.right = None /\ self.left = None
    THEN << <<self.data, code>> >>
    ELSE (IF self.left # None
          THEN visit(self.left[1], push_bit(code, 0)) ELSE <<>>)
         \o
         (IF self.right # None
          THEN visit(self.right[1], push_bit(code, 1)) ELSE <<>>)

\* encoded.insert(k, v) on a HashMap
HashMap_insert(m, k, v) ==
    IF k \in DOMAIN m THEN [m EXCEPT ![k] = v] ELSE m @@ (k :> v)

RECURSIVE insert_all(_, _, _)
insert_all(m, calls, i) ==
    IF i > Len(calls) THEN m
    ELSE insert_all(HashMap_insert(m, calls[i][1][2], calls[i][2]), calls, i + 1)

encode_chars(self) == insert_all(<<>>, visit(self, BitSet_new), 1)

\* data.1 as u8
char_as_u8(c) == c % 256

RECURSIVE encode_node(_, _)
encode_node(self, code) ==
    IF self.right = None /\ self.left = None
    THEN push_back(push_bit(code, 1), BitSet_from(<<char_as_u8(self.data[2])>>))
    ELSE LET c0 == push_bit(code, 0)
             c1 == IF self.left # None THEN encode_node(self.left[1], c0)
                                       ELSE c0
         IN  IF self.right # None THEN encode_node(self.right[1], c1) ELSE c1

encode_tree(self) == encode_node(self, BitSet_new)

(***************************************************************************)
(* Free functions                                                          *)
(***************************************************************************)
RECURSIVE count_from(_, _, _)
count_from(text, table, i) ==
    IF i > Len(text) THEN table
    ELSE LET c == text[i]
         IN  count_from(text,
                        IF c \in DOMAIN table
                        THEN [table EXCEPT ![c] = @ + 1]
                        ELSE table @@ (c :> 1),
                        i + 1)

count_frequency(text) == count_from(text, <<>>, 1)

RECURSIVE encode_from(_, _, _, _)
encode_from(text, codes, bits, i) ==
    IF bits.pos >= 0 /\ i <= Len(text)
    THEN encode_from(text, codes, push_back(bits, codes[text[i]]), i + 1)
    ELSE bits

encode_data(text, codes) == encode_from(text, codes, BitSet_new, 1)

\* String::len of a one-character string: the UTF-8 width of the character
len_utf8(c) ==
    IF c < 128 THEN 1 ELSE IF c < 2048 THEN 2 ELSE IF c < 65536 THEN 3 ELSE 4

RECURSIVE String_len(_)
String_len(text) ==
    IF text = <<>> THEN 0 ELSE len_utf8(Head(text)) + String_len(Tail(text))

CompressedFile_new(original_file_size, tree, bits) ==
    [compressed_file_size |-> 12 + BitSet_len(tree) + BitSet_len(bits),
     header_size |-> 12 + BitSet_len(tree),
     uncomporessed_file_size |-> original_file_size,
     tree |-> tree,
     data |-> bits]

\* The bytes CompressedFile::write hands to write_all.
write(self) ==
    LET e1 == push_u32(BitSet_new, self.compressed_file_size)
        e2 == push_u32(e1, self.header_size)
        e3 == push_u32(e2, self.uncomporessed_file_size)
        e4 == push_back(e3, self.tree)
        e5 == push_back(e4, self.data)
    IN  raw_bytes(e5)

(***************************************************************************)
(* BinaryHeap<Node<Pair>>                                                  *)
(***************************************************************************)
\* heap.pop(): the possible <<result, heap after>> pairs.  A max-heap hands
\* out a greatest element of the Ord it is given; which one among equals is
\* left open (it depends on the HashMap's iteration order).
heap_pop(h) ==
    IF h = {} THEN {<<None, h>>}
    ELSE {<<Some(n), h \ {n}>> : n \in {m \in h : \A o \in h : Node_le(o, m)}}

\* The loop guard that runs until the heap is empty.
loop_guard_until_empty(h) == Cardinality(h) # 0

\* while heap.len() != 1
loop_guard(h) == Cardinality(h) # 1

(***************************************************************************)
(* The run                                                                 *)
(***************************************************************************)
Init ==
    /\ src_file \in {None} \cup {Some(t) : t \in Texts}
    /\ pc = "compress"
    /\ data = <<>>
    /\ char_freq_table = <<>>
    /\ heap = {}
    /\ root = None
    /\ huffman_codes = <<>>
    /\ encoded_tree = BitSet_new
    /\ encoded_data = BitSet_new
    /\ compressed_file = None
    /\ dst_file = None
    /\ restored = None
    /\ panic = ""

\* compress, lines 399-405: read the source and count its characters.
Read ==
    /\ pc = "compress"
    /\ IF src_file = None
       THEN /\ pc' = "panicked"
            /\ panic' = "read_to_string"
            /\ UNCHANGED <<data, char_freq_table>>
       ELSE /\ pc' = "build"
            /\ data' = src_file[1]
            /\ char_freq_table' = count_frequency(src_file[1])
            /\ UNCHANGED panic
    /\ UNCHANGED <<src_file, heap, root, huffman_codes, encoded_tree,
                   encoded_data, compressed_file, dst_file, restored>>

\* build_huffman_tree, lines 337-340: one leaf per table entry.
FillHeap ==
    /\ pc = "build"
    /\ heap' = {Node_new(Pair_new(char_freq_table[k], k)) :
                    k \in DOMAIN char_freq_table}
    /\ pc' = "loop"
    /\ UNCHANGED <<src_file, data, char_freq_table, root, huffman_codes,
                   encoded_tree, encoded_data, compressed_file, dst_file,
                   restored, panic>>

\* build_huffman_tree, lines 341-351: one iteration of the combine loop.
LoopIteration ==
    /\ pc = "loop"
    /\ loop_guard(heap)
    /\ \E p1 \in heap_pop(heap) :
         \E p2 \in heap_pop(p1[2]) :
            LET fst == p1[1]
                snd == p2[1]
            IN  IF fst # None /\ snd # None
                THEN /\ heap' = p2[2] \cup {combine(fst[1], snd[1])}
                     /\ UNCHANGED <<pc, panic>>
                ELSE /\ heap' = p2[2]
                     /\ pc' = "panicked"
                     /\ panic' = "unexpected element in heap was found"
    /\ UNCHANGED <<src_file, data, char_freq_table, root, huffman_codes,
                   encoded_tree, encoded_data, compressed_file, dst_file,
                   restored>>

\* build_huffman_tree, line 352: the loop is over, the last pop is the result.
LoopExit ==
    /\ pc = "loop"
    /\ ~loop_guard(heap)
    /\ \E p \in heap_pop(heap) :
          /\ root' = p[1]
          /\ heap' = p[2]
    /\ pc' = "built"
    /\ UNCHANGED <<src_file, data, char_freq_table, huffman_codes,
                   encoded_tree, encoded_data, compressed_file, dst_file,
                   restored, panic>>

\* compress, lines 409-416: the match on build_huffman_tree's result.
Encode ==
    /\ pc = "built"
    /\ IF root # None
       THEN /\ huffman_codes' = encode_chars(root[1])
            /\ encoded_tree' = encode_tree(root[1])
            /\ encoded_data' = encode_data(data, encode_chars(root[1]))
            /\ pc' = "encoded"
            /\ UNCHANGED panic
       ELSE /\ pc' = "panicked"
            /\ panic' = "binary heap is empty"
            /\ UNCHANGED <<huffman_codes, encoded_tree, encoded_data>>
    /\ UNCHANGED <<src_file, data, char_freq_table, heap, root,
                   compressed_file, dst_file, restored>>

\* compress, lines 417-418.
MakeFile ==
    /\ pc = "encoded"
    /\ compressed_file' =
          Some(CompressedFile_new(String_len(data), encoded_tree, encoded_data))
    /\ pc' = "made"
    /\ UNCHANGED <<src_file, data, char_freq_table, heap, root, huffman_codes,
                   encoded_tree, encoded_data, dst_file, restored, panic>>

\* compress, line 419: CompressedFile::write.
Write ==
    /\ pc = "made"
    /\ dst_file' = Some(write(compressed_file[1]))
    /\ pc' = "written"
    /\ UNCHANGED <<src_file, data, char_freq_table, heap, root, huffman_codes,
                   encoded_tree, encoded_data, compressed_file, restored,
                   panic>>

\* decompress, lines 422-424, run on the container compress wrote: it prints
\* a line and returns; nothing is read and nothing is written.
Decompress ==
    /\ pc = "written"
    /\ pc' = "decompressed"
    /\ UNCHANGED <<src_file, data, char_freq_table, heap, root, huffman_codes,
                   encoded_tree, encoded_data, compressed_file, dst_file,
                   restored, panic>>

Next ==
    \/ Read
    \/ FillHeap
    \/ LoopIteration
    \/ LoopExit
    \/ Encode
    \/ MakeFile
    \/ Write
    \/ Decompress

Spec == Init /\ [][Next]_vars

\* build_huffman_tree is sequential code: while it is in its loop, the next
\* iteration or the exit of the loop is taken.
LiveSpec ==
    Init /\ [][Next]_vars /\ WF_vars(LoopIteration) /\ WF_vars(LoopExit)

(***************************************************************************)
(* Vocabulary of the properties                                            *)
(***************************************************************************)
Encoded == pc \in {"encoded", "made", "written", "decompressed"}

Made == pc \in {"made", "written", "decompressed"}

Written == pc \in {"written", "decompressed"}

Symbols == DOMAIN char_freq_table

IsPrefix(s, t) == Len(s) <= Len(t) /\ SubSeq(t, 1, Len(s)) = s

CodeLen(c) == huffman_codes[c].pos

CeilDiv8(n) == (n + 7) \div 8

\* bit k of a u32, k in 0..31
U32Bit(x, k) ==
    IF k < 16 THEN ((x % 65536) \div 2^k) % 2
              ELSE ((x \div 65536) \div 2^(k - 16)) % 2

\* bit number `index` of the written file
FileBit(index) == get_bit(BitSet_from(dst_file[1]), index)

(***************************************************************************)
(* C1                                                                      *)
(***************************************************************************)
\* C1: round trip.  Once decompress has run on the container compress wrote
\* for a non-empty text, its destination holds exactly the original text.
RoundTrip ==
    (pc = "decompressed" /\ data # <<>>) => restored = Some(data)

(***************************************************************************)
(* C2                                                                      *)
(***************************************************************************)
\* C2: prefix-free codes.  For a table of at least two symbols, every symbol
\* of the tree has a code and the code of one symbol is never a prefix of the
\* code of another, whichever way the heap breaks ties.
PrefixFreeCodes ==
    (Encoded /\ Cardinality(Symbols) >= 2) =>
        /\ Symbols \subseteq DOMAIN huffman_codes
        /\ \A x, y \in Symbols :
              x # y => ~IsPrefix(to_string(huffman_codes[x]),
                                 to_string(huffman_codes[y]))

PrefixFreeWitness ==
    /\ pc = "encoded"
    /\ Cardinality(Symbols) = 3
    /\ \E x, y \in Symbols : x # y /\ char_freq_table[x] = char_freq_table[y]
    /\ \E x, y \in Symbols : CodeLen(x) = 1 /\ CodeLen(y) = 2

(***************************************************************************)
(* C3                                                                      *)
(***************************************************************************)
\* C3: size accounting.  In every container compress builds, header_size is
\* 12 plus the tree's bits rounded up to bytes and compressed_file_size is
\* header_size plus the payload's bits rounded up to bytes, a payload of no
\* bits included.
SizeAccounting ==
    Made =>
        LET f == compressed_file[1]
        IN  /\ f.header_size = 12 + CeilDiv8(encoded_tree.pos)
            /\ f.compressed_file_size =
                  f.header_size + CeilDiv8(encoded_data.pos)

(***************************************************************************)
(* C4                                                                      *)
(***************************************************************************)
\* C4: push_u32 appends exactly 32 bits, the k-th of them bit k of its
\* argument: the three size fields can be read back from the first 96 bits
\* of the written file.
PushU32EmitsBits ==
    Written =>
        LET f == compressed_file[1]
        IN  /\ push_u32(BitSet_new, f.compressed_file_size).pos = 32
            /\ \A k \in 0..31 :
                  /\ FileBit(k) = U32Bit(f.compressed_file_size, k)
                  /\ FileBit(32 + k) = U32Bit(f.header_size, k)
                  /\ FileBit(64 + k) = U32Bit(f.uncomporessed_file_size, k)

(***************************************************************************)
(* C5                                                                      *)
(***************************************************************************)
\* C5: container layout.  In the written bytes the tree starts at byte 12,
\* the payload starts with the first bit of byte header_size, and the number
\* of bytes equals the compressed_file_size field.
ContainerLayout ==
    Written =>
        LET f == compressed_file[1]
            n == Len(dst_file[1])
        IN  /\ n = f.compressed_file_size
            /\ \A i \in 0..(encoded_tree.pos - 1) :
                  FileBit(8 * 12 + i) = get_bit(encoded_tree, i)
            /\ \A i \in 0..(encoded_data.pos - 1) :
                  /\ 8 * f.header_size + i < 8 * n
                  /\ FileBit(8 * f.header_size + i) = get_bit(encoded_data, i)

(***************************************************************************)
(* C6                                                                      *)
(***************************************************************************)
\* The outcome compress has for a tree builder that found nothing to build
\* (line 415).
EmptyInput == "binary heap is empty"

\* C6: empty input.  A run on the empty text ends in the EmptyInput failure
\* and writes no container.
EmptyInputReported ==
    (src_file = Some(<<>>) /\ pc \in {"panicked", "written", "decompressed"}) =>
        /\ pc = "panicked"
        /\ panic = EmptyInput
        /\ dst_file = None

(***************************************************************************)
(* C7                                                                      *)
(***************************************************************************)
\* C7: single-symbol code.  With one symbol in the table its code is exactly
\* one bit long, and the payload has one bit per character of the text.
SingleSymbolCode ==
    (Encoded /\ Cardinality(Symbols) = 1) =>
        /\ \A c \in Symbols : CodeLen(c) = 1
        /\ encoded_data.pos = Len(data)

(***************************************************************************)
(* C8                                                                      *)
(***************************************************************************)
\* C8: tree construction terminates.  For a non-empty table (one symbol
\* included) no panic is reached, every iteration of the combine loop leaves
\* the heap one node smaller, the loop is left with exactly one node in the
\* heap, which is returned as the root, and the loop is always left.
TreeConstructionTerminates ==
    /\ [](Symbols # {} => panic = "")
    /\ [][(pc = "loop" /\ pc' = "loop" /\ Symbols # {}) =>
              Cardinality(heap') = Cardinality(heap) - 1]_vars
    /\ [][(pc = "loop" /\ pc' = "built") =>
              (Cardinality(heap) = 1 /\ \A n \in heap : root' = Some(n))]_vars
    /\ (pc = "loop" /\ Symbols # {}) ~> (pc = "built" /\ root # None)

TreeConstructionWitness ==
    /\ pc = "built"
    /\ Cardinality(Symbols) = 3
    /\ root # None
    /\ root[1].left # None
    /\ heap = {}

(***************************************************************************)
(* C9                                                                      *)
(***************************************************************************)
\* C9: weight ordering.  Every combine step takes the two nodes of lowest
\* weight out of the heap, the lighter one first, and in the codes of the
\* built tree a symbol that is more frequent than another never has a longer
\* code, whichever way ties are broken.
WeightOrdering ==
    /\ [][(pc = "loop" /\ pc' = "loop" /\ heap' # heap) =>
              \A new \in heap' \ heap :
                  /\ new.left[1] \in heap
                  /\ new.right[1] \in heap
                  /\ new.left[1].data[1] <= new.right[1].data[1]
                  /\ \A m \in heap' \ {new} :
                        new.right[1].data[1] <= m.data[1]]_vars
    /\ [](Encoded =>
            \A x, y \in Symbols :
                char_freq_table[x] > char_freq_table[y] =>
                    CodeLen(x) <= CodeLen(y))

WeightOrderingWitness ==
    /\ pc = "encoded"
    /\ \E x, y, z \in Symbols :
          /\ x # y
          /\ char_freq_table[x] = char_freq_table[y]
          /\ char_freq_table[z] > char_freq_table[x]
          /\ CodeLen(z) < CodeLen(x)

(***************************************************************************)
(* C10                                                                     *)
(***************************************************************************)
\* A tree without its weights: its shape and its leaf symbols.
RECURSIVE Unweighted(_)
Unweighted(t) ==
    IF t.left = None /\ t.right = None
    THEN Node_new(Pair_new(0, t.data[2]))
    ELSE combine(Unweighted(t.left[1]), Unweighted(t.right[1]))

\* Every unweighted tree of n leaves over the alphabet.
RECURSIVE TreesOfLeaves(_)
TreesOfLeaves(n) ==
    IF n = 1 THEN {Node_new(Pair_new(0, c)) : c \in Alphabet}
    ELSE UNION {{combine(l, r) : l \in TreesOfLeaves(k),
                                 r \in TreesOfLeaves(n - k)} : k \in 1..(n - 1)}

\* C10: tree serialization.  The serialized tree determines the tree: no
\* tree of another shape or with another leaf symbol, code points above 255
\* included, has the bits encode_tree gave the built tree.
SerializationDeterminesTree ==
    Encoded =>
        \A n \in 1..Cardinality(Symbols) :
            \A t \in TreesOfLeaves(n) :
                to_string(encode_tree(t)) = to_string(encoded_tree)
                    => t = Unweighted(root[1])

====
